---- MODULE Spec2Model ----
(***************************************************************************)
(* CPU scheduling simulators of SoftwareEngineering/pid.cpp (FCFS) and     *)
(* SoftwareEngineering/sjf.cpp (non-preemptive SJF and preemptive SRTF).   *)
(* Arrays are functions over 0..n-1, as the vectors of the programs.       *)
(***************************************************************************)
EXTENDS Integers, FiniteSets, Sequences, TLC

\* Bounds of the enumerated inputs.
MaxN == 3
MaxAT == 2
MaxBT == 3
\* Bound on n for the enumerated inputs of the fair specification.
MaxFairN == 2

\* Initial value of minBT / minRT in the selection scans (1e9).
INF == 1000000000

VARIABLES
    prog,       \* which program runs: "pid" (pid.cpp) or "sjf" (sjf.cpp)
    pc,         \* position in main
    n, choice,  \* values read from the input
    pid, at, bt, ct, tat, wt,
    i, j,       \* loop indices of pid.cpp
    time, totalTAT, totalWT,
    done, completed, rt, idx,
    idle,       \* history: clock units during which no process was running
    out         \* what has been printed after the input prompts

vars == <<prog, pc, n, choice, pid, at, bt, ct, tat, wt, i, j, time,
          totalTAT, totalWT, done, completed, rt, idx, idle, out>>

Idx == 0 .. (n - 1)

RECURSIVE Sum(_, _)
Sum(f, S) == IF S = {} THEN 0
             ELSE LET x == CHOOSE y \in S : TRUE IN f[x] + Sum(f, S \ {x})

----------------------------------------------------------------------------
(* Inputs *)

\* The worked example of the specification: A(0,8), B(1,4), C(2,2).
ExampleAT == (0 :> 0) @@ (1 :> 1) @@ (2 :> 2)
ExampleBT == (0 :> 8) @@ (1 :> 4) @@ (2 :> 2)

ValidInput ==
    \/ /\ n \in 1 .. MaxN
       /\ at \in [0 .. (n - 1) -> 0 .. MaxAT]
       /\ bt \in [0 .. (n - 1) -> 1 .. MaxBT]
    \/ /\ n = 3
       /\ at = ExampleAT
       /\ bt = ExampleBT

IsExample == n = 3 /\ at = ExampleAT /\ bt = ExampleBT

\* State after the vectors are built and the input is read
\* (pid.cpp lines 10-23, sjf.cpp lines 6-27).
Init ==
    /\ prog \in {"pid", "sjf"}
    /\ ValidInput
    /\ choice \in (IF prog = "sjf" THEN 1 .. 3 ELSE {0})
    /\ pid = [k \in 0 .. (n - 1) |-> k + 1]
    /\ ct = [k \in 0 .. (n - 1) |-> 0]
    /\ tat = [k \in 0 .. (n - 1) |-> 0]
    /\ wt = [k \in 0 .. (n - 1) |-> 0]
    /\ pc = IF prog = "pid" THEN "sort" ELSE "select"
    /\ i = 0
    /\ j = 1
    /\ time = 0
    /\ totalTAT = 0
    /\ totalWT = 0
    /\ done = [k \in 0 .. (n - 1) |-> FALSE]
    /\ completed = 0
    /\ rt = [k \in 0 .. (n - 1) |-> 0]
    /\ idx = -1
    /\ idle = 0
    /\ out = "prompts"

----------------------------------------------------------------------------
(* pid.cpp: sort by arrival time, then first come first served *)

\* Variant of OutOfOrder: the comparison is reversed.
OutOfOrderReversed(a, b) == a < b

\* The comparison of the sort (pid.cpp line 28).
OutOfOrder(a, b) == a > b

\* Variant of Swap: the first element is overwritten and the second kept.
SwapOverwrite(v, p, q) == [v EXCEPT ![p] = v[q]]

\* swap(v[p], v[q])
Swap(v, p, q) == [v EXCEPT ![p] = v[q], ![q] = v[p]]

\* One iteration of the inner loop body with the loop increments that follow
\* it (pid.cpp lines 26-34).
SortStep ==
    /\ pc = "sort"
    /\ i < n - 1
    /\ j < n
    /\ IF OutOfOrder(at[i], at[j])
       THEN /\ at' = Swap(at, i, j)
            /\ bt' = Swap(bt, i, j)
            /\ pid' = Swap(pid, i, j)
       ELSE UNCHANGED <<at, bt, pid>>
    /\ IF j + 1 < n
       THEN /\ j' = j + 1
            /\ i' = i
       ELSE /\ i' = i + 1
            /\ j' = i + 2
    /\ UNCHANGED <<prog, pc, n, choice, ct, tat, wt, time, totalTAT, totalWT,
                   done, completed, rt, idx, idle, out>>

\* The outer loop ends; time and the totals are initialised
\* (pid.cpp lines 26, 36-37, 39).
SortDone ==
    /\ pc = "sort"
    /\ ~(i < n - 1)
    /\ pc' = "fcfs"
    /\ i' = 0
    /\ time' = 0
    /\ totalTAT' = 0
    /\ totalWT' = 0
    /\ UNCHANGED <<prog, n, choice, pid, at, bt, ct, tat, wt, j, done,
                   completed, rt, idx, idle, out>>

\* Variant of StartTime: the clock is not moved forward to the arrival time.
StartTimeNoWait(t, a) == t

\* The clock at which a process arriving at a starts when the CPU is free
\* at t (pid.cpp lines 40-42).
StartTime(t, a) == IF t < a THEN a ELSE t

\* Variant of FcfsStep: the clock is not moved to the completion time.
FcfsStepClockKept ==
    /\ pc = "fcfs"
    /\ i < n
    /\ LET start == StartTime(time, at[i])
           c == start + bt[i]
       IN  /\ ct' = [ct EXCEPT ![i] = c]
           /\ wt' = [wt EXCEPT ![i] = c - (at[i] + bt[i])]
           /\ tat' = [tat EXCEPT ![i] = c - at[i]]
           /\ time' = start
           /\ totalTAT' = totalTAT + (c - at[i])
           /\ totalWT' = totalWT + (c - (at[i] + bt[i]))
           /\ idle' = idle + (start - time)
    /\ i' = i + 1
    /\ UNCHANGED <<prog, pc, n, choice, pid, at, bt, j, done, completed, rt,
                   idx, out>>

\* Variant of FcfsStep: the turnaround time is added to the waiting total.
FcfsStepWrongTotal ==
    /\ pc = "fcfs"
    /\ i < n
    /\ LET start == StartTime(time, at[i])
           c == start + bt[i]
       IN  /\ ct' = [ct EXCEPT ![i] = c]
           /\ wt' = [wt EXCEPT ![i] = c - (at[i] + bt[i])]
           /\ tat' = [tat EXCEPT ![i] = c - at[i]]
           /\ time' = c
           /\ totalTAT' = totalTAT + (c - at[i])
           /\ totalWT' = totalWT + (c - at[i])
           /\ idle' = idle + (start - time)
    /\ i' = i + 1
    /\ UNCHANGED <<prog, pc, n, choice, pid, at, bt, j, done, completed, rt,
                   idx, out>>

\* One iteration of the FCFS loop (pid.cpp lines 39-51).
FcfsStep ==
    /\ pc = "fcfs"
    /\ i < n
    /\ LET start == StartTime(time, at[i])
           c == start + bt[i]
       IN  /\ ct' = [ct EXCEPT ![i] = c]
           /\ wt' = [wt EXCEPT ![i] = c - (at[i] + bt[i])]
           /\ tat' = [tat EXCEPT ![i] = c - at[i]]
           /\ time' = c
           /\ totalTAT' = totalTAT + (c - at[i])
           /\ totalWT' = totalWT + (c - (at[i] + bt[i]))
           /\ idle' = idle + (start - time)
    /\ i' = i + 1
    /\ UNCHANGED <<prog, pc, n, choice, pid, at, bt, j, done, completed, rt,
                   idx, out>>

\* The FCFS loop ends (pid.cpp line 39).
FcfsDone ==
    /\ pc = "fcfs"
    /\ ~(i < n)
    /\ pc' = "output"
    /\ UNCHANGED <<prog, n, choice, pid, at, bt, ct, tat, wt, i, j, time,
                   totalTAT, totalWT, done, completed, rt, idx, idle, out>>

----------------------------------------------------------------------------
(* sjf.cpp: mode selection *)

\* choice == 1 (sjf.cpp lines 30-32).
StartNonPreemptive ==
    /\ pc = "select"
    /\ choice = 1
    /\ pc' = "np"
    /\ done' = [k \in Idx |-> FALSE]
    /\ time' = 0
    /\ completed' = 0
    /\ UNCHANGED <<prog, n, choice, pid, at, bt, ct, tat, wt, i, j, totalTAT,
                   totalWT, rt, idx, idle, out>>

\* choice == 2 (sjf.cpp lines 64-66).
StartPreemptive ==
    /\ pc = "select"
    /\ choice = 2
    /\ pc' = "pre"
    /\ rt' = bt
    /\ time' = 0
    /\ completed' = 0
    /\ UNCHANGED <<prog, n, choice, pid, at, bt, ct, tat, wt, i, j, totalTAT,
                   totalWT, done, idx, idle, out>>

\* Variant of InvalidChoice: the message is printed but main does not return.
InvalidChoiceNoReturn ==
    /\ pc = "select"
    /\ choice # 1
    /\ choice # 2
    /\ pc' = "output"
    /\ out' = "Invalid choice!"
    /\ UNCHANGED <<prog, n, choice, pid, at, bt, ct, tat, wt, i, j, time,
                   totalTAT, totalWT, done, completed, rt, idx, idle>>

\* Any other choice (sjf.cpp lines 99-102).
InvalidChoice ==
    /\ pc = "select"
    /\ choice # 1
    /\ choice # 2
    /\ pc' = "exit"
    /\ out' = "Invalid choice!"
    /\ UNCHANGED <<prog, n, choice, pid, at, bt, ct, tat, wt, i, j, time,
                   totalTAT, totalWT, done, completed, rt, idx, idle>>

----------------------------------------------------------------------------
(* sjf.cpp: non-preemptive SJF *)

\* Variant of ScanBT: records that have not arrived are not excluded.
RECURSIVE ScanBTNoArrival(_, _, _)
ScanBTNoArrival(k, minBT, sel) ==
    IF ~(k < n) THEN sel
    ELSE IF ~done[k] /\ bt[k] < minBT
         THEN ScanBTNoArrival(k + 1, bt[k], k)
         ELSE ScanBTNoArrival(k + 1, minBT, sel)

\* Variant of ScanBT: a record arriving exactly at the clock is not eligible.
RECURSIVE ScanBTStrictArrival(_, _, _)
ScanBTStrictArrival(k, minBT, sel) ==
    IF ~(k < n) THEN sel
    ELSE IF at[k] < time /\ ~done[k] /\ bt[k] < minBT
         THEN ScanBTStrictArrival(k + 1, bt[k], k)
         ELSE ScanBTStrictArrival(k + 1, minBT, sel)

\* Variant of ScanBT: the comparison is not strict, so the last tie wins.
RECURSIVE ScanBTLastTie(_, _, _)
ScanBTLastTie(k, minBT, sel) ==
    IF ~(k < n) THEN sel
    ELSE IF at[k] <= time /\ ~done[k] /\ bt[k] <= minBT
         THEN ScanBTLastTie(k + 1, bt[k], k)
         ELSE ScanBTLastTie(k + 1, minBT, sel)

\* Variant of ScanBT: completed records are not excluded.
RECURSIVE ScanBTNoDone(_, _, _)
ScanBTNoDone(k, minBT, sel) ==
    IF ~(k < n) THEN sel
    ELSE IF at[k] <= time /\ bt[k] < minBT
         THEN ScanBTNoDone(k + 1, bt[k], k)
         ELSE ScanBTNoDone(k + 1, minBT, sel)

\* The selection scan from index k on, with the running minBT and idx
\* (sjf.cpp lines 35-43).
RECURSIVE ScanBT(_, _, _)
ScanBT(k, minBT, sel) ==
    IF ~(k < n) THEN sel
    ELSE IF at[k] <= time /\ ~done[k] /\ bt[k] < minBT
         THEN ScanBT(k + 1, bt[k], k)
         ELSE ScanBT(k + 1, minBT, sel)

\* No process is eligible: the clock ticks (sjf.cpp lines 34-48).
NonPreemptiveIdle ==
    /\ pc = "np"
    /\ completed < n
    /\ ScanBT(0, INF, -1) = -1
    /\ idx' = -1
    /\ time' = time + 1
    /\ idle' = idle + 1
    /\ UNCHANGED <<prog, pc, n, choice, pid, at, bt, ct, tat, wt, i, j,
                   totalTAT, totalWT, done, completed, rt, out>>

\* Variant of NonPreemptiveRun: the clock is set to the burst time instead
\* of being advanced by it.
NonPreemptiveRunClockSet ==
    /\ pc = "np"
    /\ completed < n
    /\ LET s == ScanBT(0, INF, -1)
           t == bt[s]
       IN  /\ s # -1
           /\ idx' = s
           /\ time' = t
           /\ ct' = [ct EXCEPT ![s] = t]
           /\ tat' = [tat EXCEPT ![s] = t - at[s]]
           /\ wt' = [wt EXCEPT ![s] = (t - at[s]) - bt[s]]
           /\ totalTAT' = totalTAT + (t - at[s])
           /\ totalWT' = totalWT + ((t - at[s]) - bt[s])
           /\ done' = [done EXCEPT ![s] = TRUE]
    /\ completed' = completed + 1
    /\ UNCHANGED <<prog, pc, n, choice, pid, at, bt, i, j, rt, idle, out>>

\* The selected process runs to completion (sjf.cpp lines 34-43, 50-59).
NonPreemptiveRun ==
    /\ pc = "np"
    /\ completed < n
    /\ LET s == ScanBT(0, INF, -1)
           t == time + bt[s]
       IN  /\ s # -1
           /\ idx' = s
           /\ time' = t
           /\ ct' = [ct EXCEPT ![s] = t]
           /\ tat' = [tat EXCEPT ![s] = t - at[s]]
           /\ wt' = [wt EXCEPT ![s] = (t - at[s]) - bt[s]]
           /\ totalTAT' = totalTAT + (t - at[s])
           /\ totalWT' = totalWT + ((t - at[s]) - bt[s])
           /\ done' = [done EXCEPT ![s] = TRUE]
    /\ completed' = completed + 1
    /\ UNCHANGED <<prog, pc, n, choice, pid, at, bt, i, j, rt, idle, out>>

\* The loop ends (sjf.cpp line 34).
NonPreemptiveDone ==
    /\ pc = "np"
    /\ ~(completed < n)
    /\ pc' = "output"
    /\ UNCHANGED <<prog, n, choice, pid, at, bt, ct, tat, wt, i, j, time,
                   totalTAT, totalWT, done, completed, rt, idx, idle, out>>

----------------------------------------------------------------------------
(* sjf.cpp: preemptive SJF *)

\* Variant of ScanRT: records that have not arrived are not excluded.
RECURSIVE ScanRTNoArrival(_, _, _)
ScanRTNoArrival(k, minRT, sel) ==
    IF ~(k < n) THEN sel
    ELSE IF rt[k] > 0 /\ rt[k] < minRT
         THEN ScanRTNoArrival(k + 1, rt[k], k)
         ELSE ScanRTNoArrival(k + 1, minRT, sel)

\* Variant of ScanRT: the comparison is not strict, so the last tie wins.
RECURSIVE ScanRTLastTie(_, _, _)
ScanRTLastTie(k, minRT, sel) ==
    IF ~(k < n) THEN sel
    ELSE IF at[k] <= time /\ rt[k] > 0 /\ rt[k] <= minRT
         THEN ScanRTLastTie(k + 1, rt[k], k)
         ELSE ScanRTLastTie(k + 1, minRT, sel)

\* Variant of ScanRT: records without remaining time are not excluded.
RECURSIVE ScanRTNoPositive(_, _, _)
ScanRTNoPositive(k, minRT, sel) ==
    IF ~(k < n) THEN sel
    ELSE IF at[k] <= time /\ rt[k] < minRT
         THEN ScanRTNoPositive(k + 1, rt[k], k)
         ELSE ScanRTNoPositive(k + 1, minRT, sel)

\* The selection scan from index k on, with the running minRT and idx
\* (sjf.cpp lines 69-77).
RECURSIVE ScanRT(_, _, _)
ScanRT(k, minRT, sel) ==
    IF ~(k < n) THEN sel
    ELSE IF at[k] <= time /\ rt[k] > 0 /\ rt[k] < minRT
         THEN ScanRT(k + 1, rt[k], k)
         ELSE ScanRT(k + 1, minRT, sel)

\* Variant of PreemptiveIdle: the clock does not tick.
PreemptiveIdleStuck ==
    /\ pc = "pre"
    /\ completed < n
    /\ ScanRT(0, INF, -1) = -1
    /\ idx' = -1
    /\ UNCHANGED <<prog, pc, n, choice, pid, at, bt, ct, tat, wt, i, j, time,
                   totalTAT, totalWT, done, completed, rt, idle, out>>

\* No process is eligible: the clock ticks (sjf.cpp lines 68-82).
PreemptiveIdle ==
    /\ pc = "pre"
    /\ completed < n
    /\ ScanRT(0, INF, -1) = -1
    /\ idx' = -1
    /\ time' = time + 1
    /\ idle' = idle + 1
    /\ UNCHANGED <<prog, pc, n, choice, pid, at, bt, ct, tat, wt, i, j,
                   totalTAT, totalWT, done, completed, rt, out>>

\* Variant of PreemptiveRun: the completion time is the clock before the
\* tick.
PreemptiveRunStaleClock ==
    /\ pc = "pre"
    /\ completed < n
    /\ LET s == ScanRT(0, INF, -1)
           t == time
       IN  /\ s # -1
           /\ idx' = s
           /\ rt' = [rt EXCEPT ![s] = rt[s] - 1]
           /\ time' = time + 1
           /\ IF rt[s] - 1 = 0
              THEN /\ ct' = [ct EXCEPT ![s] = t]
                   /\ tat' = [tat EXCEPT ![s] = t - at[s]]
                   /\ wt' = [wt EXCEPT ![s] = (t - at[s]) - bt[s]]
                   /\ totalTAT' = totalTAT + (t - at[s])
                   /\ totalWT' = totalWT + ((t - at[s]) - bt[s])
                   /\ completed' = completed + 1
              ELSE UNCHANGED <<ct, tat, wt, totalTAT, totalWT, completed>>
    /\ UNCHANGED <<prog, pc, n, choice, pid, at, bt, i, j, done, idle, out>>

\* The selected process runs for one unit and, when its remaining time
\* reaches zero, is completed (sjf.cpp lines 68-77, 84-95).
PreemptiveRun ==
    /\ pc = "pre"
    /\ completed < n
    /\ LET s == ScanRT(0, INF, -1)
           t == time + 1
       IN  /\ s # -1
           /\ idx' = s
           /\ rt' = [rt EXCEPT ![s] = rt[s] - 1]
           /\ time' = t
           /\ IF rt[s] - 1 = 0
              THEN /\ ct' = [ct EXCEPT ![s] = t]
                   /\ tat' = [tat EXCEPT ![s] = t - at[s]]
                   /\ wt' = [wt EXCEPT ![s] = (t - at[s]) - bt[s]]
                   /\ totalTAT' = totalTAT + (t - at[s])
                   /\ totalWT' = totalWT + ((t - at[s]) - bt[s])
                   /\ completed' = completed + 1
              ELSE UNCHANGED <<ct, tat, wt, totalTAT, totalWT, completed>>
    /\ UNCHANGED <<prog, pc, n, choice, pid, at, bt, i, j, done, idle, out>>

\* The loop ends (sjf.cpp line 68).
PreemptiveDone ==
    /\ pc = "pre"
    /\ ~(completed < n)
    /\ pc' = "output"
    /\ UNCHANGED <<prog, n, choice, pid, at, bt, ct, tat, wt, i, j, time,
                   totalTAT, totalWT, done, completed, rt, idx, idle, out>>

----------------------------------------------------------------------------
(* Both programs: the table and the averages *)

\* pid.cpp lines 53-64, sjf.cpp lines 104-115.
OutputResults ==
    /\ pc = "output"
    /\ pc' = "exit"
    /\ out' = "table"
    /\ UNCHANGED <<prog, n, choice, pid, at, bt, ct, tat, wt, i, j, time,
                   totalTAT, totalWT, done, completed, rt, idx, idle>>

Next ==
    \/ SortStep
    \/ SortDone
    \/ FcfsStep
    \/ FcfsDone
    \/ StartNonPreemptive
    \/ StartPreemptive
    \/ InvalidChoice
    \/ NonPreemptiveIdle
    \/ NonPreemptiveRun
    \/ NonPreemptiveDone
    \/ PreemptiveIdle
    \/ PreemptiveRun
    \/ PreemptiveDone
    \/ OutputResults

Spec == Init /\ [][Next]_vars

\* Bounds of the runs of sjf.cpp on inputs that may hold a burst time of 0:
\* the number of processes, and the clock up to which an idling preemptive
\* loop is followed.
MaxZeroN == 2
MaxClock == 10

\* sjf.cpp after reading an input whose burst times may be 0, which the
\* program does not reject (sjf.cpp lines 6-27).
ZeroInit ==
    /\ prog = "sjf"
    /\ n \in 1 .. MaxZeroN
    /\ at \in [0 .. (n - 1) -> 0 .. MaxAT]
    /\ bt \in [0 .. (n - 1) -> 0 .. MaxBT]
    /\ choice \in 1 .. 3
    /\ pid = [k \in 0 .. (n - 1) |-> k + 1]
    /\ ct = [k \in 0 .. (n - 1) |-> 0]
    /\ tat = [k \in 0 .. (n - 1) |-> 0]
    /\ wt = [k \in 0 .. (n - 1) |-> 0]
    /\ pc = "select"
    /\ i = 0
    /\ j = 1
    /\ time = 0
    /\ totalTAT = 0
    /\ totalWT = 0
    /\ done = [k \in 0 .. (n - 1) |-> FALSE]
    /\ completed = 0
    /\ rt = [k \in 0 .. (n - 1) |-> 0]
    /\ idx = -1
    /\ idle = 0
    /\ out = "prompts"

\* The preemptive idle tick, followed up to MaxClock.
PreemptiveIdleCapped == PreemptiveIdle /\ time < MaxClock

ZeroNext ==
    \/ StartNonPreemptive
    \/ StartPreemptive
    \/ InvalidChoice
    \/ NonPreemptiveIdle
    \/ NonPreemptiveRun
    \/ NonPreemptiveDone
    \/ PreemptiveIdleCapped
    \/ PreemptiveRun
    \/ PreemptiveDone
    \/ OutputResults

ZeroSpec == ZeroInit /\ [][ZeroNext]_vars

\* sjf.cpp alone, on the example and on the inputs of at most MaxFairN
\* processes.
SjfInit ==
    /\ Init
    /\ prog = "sjf"
    /\ n <= MaxFairN \/ IsExample

SjfNext ==
    \/ StartNonPreemptive
    \/ StartPreemptive
    \/ InvalidChoice
    \/ NonPreemptiveIdle
    \/ NonPreemptiveRun
    \/ NonPreemptiveDone
    \/ PreemptiveIdle
    \/ PreemptiveRun
    \/ PreemptiveDone
    \/ OutputResults

\* The program is a single thread that keeps executing until main returns.
SjfFairSpec == SjfInit /\ [][SjfNext]_vars /\ WF_vars(SjfNext)

----------------------------------------------------------------------------
(* Properties *)

\* The simulation has finished: the loops are over and a table is due.
Finished == pc = "output" \/ (pc = "exit" /\ out = "table")

\* C1: when a simulation (FCFS, non-preemptive SJF, preemptive SRTF) has
\* finished on valid input, every record has tat = ct - at, wt = tat - bt,
\* wt >= 0 and tat >= bt.
C1_MetricsInvariant ==
    Finished =>
        \A k \in Idx : /\ tat[k] = ct[k] - at[k]
                       /\ wt[k] = tat[k] - bt[k]
                       /\ wt[k] >= 0
                       /\ tat[k] >= bt[k]

\* A finished preemptive run in which some process waited and another did not.
C1_Witness ==
    /\ Finished
    /\ prog = "sjf"
    /\ choice = 2
    /\ \E k \in Idx : wt[k] > 0
    /\ \E k \in Idx : wt[k] = 0 /\ at[k] > 0

\* C2: the FCFS sort is stable: after the sort, records with equal arrival
\* time are in input order (lower id first), and are executed in that order.
C2_StableSort ==
    (prog = "pid" /\ pc # "sort") =>
        \A p \in Idx : \A q \in Idx :
            (p < q /\ at[p] = at[q]) => pid[p] < pid[q]

\* A record is eligible for non-preemptive selection at the current clock.
EligibleBT(k) == at[k] <= time /\ ~done[k]

\* A record is eligible for preemptive selection at the current clock.
EligibleRT(k) == at[k] <= time /\ rt[k] > 0

\* s is at least as good as k under the order (key, arrival time, id).
Preferred(key, s, k) ==
    \/ key[s] < key[k]
    \/ /\ key[s] = key[k]
       /\ \/ at[s] < at[k]
          \/ at[s] = at[k] /\ pid[s] <= pid[k]

\* C3: in non-preemptive SJF every selected process is eligible and has the
\* minimum burst time among the eligible ones, ties resolved by earliest
\* arrival time and then lowest id.
C3_SJFSelection ==
    [][(pc = "np" /\ completed' = completed + 1) =>
         /\ EligibleBT(idx')
         /\ \A k \in Idx : EligibleBT(k) => Preferred(bt, idx', k)]_vars

\* C4: in preemptive SRTF the process run in a tick is eligible and has the
\* minimum remaining time among the eligible ones, ties resolved by earliest
\* arrival time and then lowest id; only its remaining time decreases, by
\* one, and the clock increases by one.
C4_SRTFSelection ==
    [][(pc = "pre" /\ pc' = "pre" /\ idx' # -1) =>
         /\ EligibleRT(idx')
         /\ \A k \in Idx : EligibleRT(k) => Preferred(rt, idx', k)
         /\ rt' = [rt EXCEPT ![idx'] = rt[idx'] - 1]
         /\ time' = time + 1]_vars

\* C5: after FCFS the records are in non-decreasing order of arrival time
\* and the completion time of the k-th record is
\* max(completion time of the (k-1)-th, its arrival time) + its burst time,
\* the completion time before the first record being 0.
C5_FcfsRecurrence ==
    (prog = "pid" /\ Finished) =>
        /\ \A p \in Idx : \A q \in Idx : p < q => at[p] <= at[q]
        /\ \A k \in Idx :
             LET prev == IF k = 0 THEN 0 ELSE ct[k - 1]
             IN  ct[k] = (IF prev > at[k] THEN prev ELSE at[k]) + bt[k]

\* A finished FCFS run in which the sort moved records, the CPU was idle
\* before one record and another record had to wait.
C5_Witness ==
    /\ prog = "pid"
    /\ Finished
    /\ pid[0] # 1
    /\ \E k \in Idx : k > 0 /\ ct[k - 1] < at[k]
    /\ \E k \in Idx : k > 0 /\ ct[k - 1] > at[k]

\* C6: in preemptive SRTF a record's completion time is written in the step
\* in which its remaining time goes from 1 to 0, with the value of the clock
\* right after that tick, and in no other step.
C6_CompletionAtZero ==
    [][pc = "pre" =>
         \A k \in Idx :
            /\ (rt[k] = 1 /\ rt'[k] = 0) =>
                   (ct'[k] = time' /\ time' = time + 1)
            /\ ct'[k] # ct[k] => (rt[k] = 1 /\ rt'[k] = 0)]_vars

\* The last tick completed a record while another one is still unfinished.
C6_Witness ==
    /\ pc = "pre"
    /\ idx # -1
    /\ rt[idx] = 0
    /\ ct[idx] = time
    /\ bt[idx] > 1
    /\ \E k \in Idx : rt[k] > 0 /\ rt[k] < bt[k]

\* The completion block of the chosen mode of sjf.cpp has run for record k:
\* in mode 1 it sets done[k]; in mode 2 it runs when the decrement brings
\* rt[k] to 0, which never happens to a record whose burst time is 0. It
\* has run for no record before the loop starts or when the choice is
\* invalid.
IsCompleted(k) ==
    CASE prog = "sjf" /\ choice = 1 -> done[k]
      [] prog = "sjf" /\ choice = 2 ->
             pc # "select" /\ bt[k] > 0 /\ rt[k] = 0
      [] OTHER -> FALSE

\* What a step of either SJF loop may do to the completion data.
AssignsOnce ==
    pc \in {"np", "pre"} =>
        /\ \A k \in Idx :
             (ct'[k] # ct[k] \/ tat'[k] # tat[k] \/ wt'[k] # wt[k]) =>
                 /\ ~IsCompleted(k)
                 /\ ct[k] = 0
                 /\ idx' = k
                 /\ completed' = completed + 1
        /\ (pc' = pc /\ idx' # -1) => ~IsCompleted(idx')
        /\ \A k \in Idx : IsCompleted(k) =>
             /\ done'[k] = done[k]
             /\ rt'[k] = rt[k]
        /\ completed' # completed =>
             /\ completed' = completed + 1
             /\ idx' # -1
             /\ ~IsCompleted(idx')
             /\ ct'[idx'] = time'

\* C7: in both SJF modes every record's completion, turnaround and waiting
\* time is assigned exactly once, a completed record is never selected
\* again, and completed grows by one per completed record.
C7_AssignedOnce ==
    /\ [][AssignsOnce]_vars
    /\ [](prog = "sjf" /\ pc \in {"np", "pre", "output"} =>
            completed = Cardinality({k \in Idx : ct[k] > 0}))

\* Non-preemptive SJF has completed a record and is about to select among
\* other records while the completed one still has the shortest burst.
C7_Witness ==
    /\ pc = "np"
    /\ completed > 0
    /\ completed < n
    /\ \E k \in Idx : \E m \in Idx :
          done[k] /\ ~done[m] /\ at[m] <= time /\ bt[k] < bt[m]

\* C8: on valid input both SJF loops terminate; the non-preemptive loop ends
\* with every record done, the preemptive loop ends with every remaining
\* time zero, and at every head of the preemptive loop completed is the
\* number of records whose remaining time is 0.
C8_Termination ==
    /\ (pc \in {"np", "pre"}) ~>
           /\ pc = "output"
           /\ choice = 1 => \A k \in Idx : done[k]
           /\ choice = 2 => \A k \in Idx : rt[k] = 0
    /\ [](pc = "pre" =>
            completed = Cardinality({k \in Idx : rt[k] = 0}))
    /\ []((pc = "output" /\ choice = 1) => \A k \in Idx : done[k])
    /\ []((pc = "output" /\ choice = 2) => \A k \in Idx : rt[k] = 0)

\* A preemptive run has ended after the clock idled at least once.
C8_Witness ==
    /\ pc = "output"
    /\ choice = 2
    /\ idle > 0
    /\ completed = n
    /\ \A k \in Idx : rt[k] = 0

\* Work served so far: the burst time consumed by the processes. Nothing is
\* served before the loops start or when main returns on an invalid choice.
Served ==
    CASE pc = "fcfs" -> Sum(bt, 0 .. (i - 1))
      [] pc = "np" -> Sum(bt, {k \in Idx : done[k]})
      [] pc = "pre" -> Sum([k \in Idx |-> bt[k] - rt[k]], Idx)
      [] Finished -> Sum(bt, Idx)
      [] OTHER -> 0

\* C9: in every simulation the clock time during which some process runs
\* equals the burst time served, and at the end the clock is the sum of all
\* burst times plus the number of idle units.
C9_BusyTime ==
    /\ time - idle = Served
    /\ Finished => time = Sum(bt, Idx) + idle

\* A finished run of each kind with idle time in it.
C9_Witness ==
    /\ Finished
    /\ idle > 1
    /\ n > 1
    /\ time = Sum(bt, Idx) + idle
    /\ choice = 1

\* C10: preemptive SJF on A(0,8), B(1,4), C(2,2) runs A in [0,1), B in
\* [1,2), C in [2,4), B in [4,7), A in [7,14) and gives completion times
\* C = 4, B = 7, A = 14.
C10_PreemptiveExample ==
    (IsExample /\ choice = 2) =>
        /\ (pc = "pre" /\ time >= 1) =>
               idx = (CASE time = 1 -> 0
                        [] time = 2 -> 1
                        [] time \in 3 .. 4 -> 2
                        [] time \in 5 .. 7 -> 1
                        [] OTHER -> 0)
        /\ pc = "pre" => time <= 14
        /\ Finished => /\ time = 14
                       /\ ct = (0 :> 14) @@ (1 :> 7) @@ (2 :> 4)

\* The example has been run to the end in preemptive mode.
C10_Witness ==
    /\ IsExample
    /\ choice = 2
    /\ pc = "output"
    /\ ct[2] = 4

\* C11: non-preemptive SJF on A(0,8), B(1,4), C(2,2) executes A, C, B and
\* gives A: CT=8, TAT=8, WT=0; C: CT=10, TAT=8, WT=6; B: CT=14, TAT=13, WT=9.
C11_NonPreemptiveExample ==
    (IsExample /\ choice = 1) =>
        /\ pc = "np" =>
               /\ time \in {0, 8, 10, 14}
               /\ idx = (CASE time = 0 -> -1
                           [] time = 8 -> 0
                           [] time = 10 -> 2
                           [] OTHER -> 1)
        /\ Finished =>
               /\ ct = (0 :> 8) @@ (1 :> 14) @@ (2 :> 10)
               /\ tat = (0 :> 8) @@ (1 :> 13) @@ (2 :> 8)
               /\ wt = (0 :> 0) @@ (1 :> 9) @@ (2 :> 6)

\* The example has been run to the end in non-preemptive mode.
C11_Witness ==
    /\ IsExample
    /\ choice = 1
    /\ pc = "output"
    /\ idx = 1
    /\ ct[1] = 14

\* The vector of n zeros, as the vectors are constructed.
Zeros == [k \in Idx |-> 0]

\* C12: when the SJF mode is neither 1 nor 2 the program reports the invalid
\* choice and stops: neither simulation runs, no completion, turnaround or
\* waiting time is written, the totals stay 0 and no table or average is
\* produced.
C12_InvalidChoice ==
    (prog = "sjf" /\ choice # 1 /\ choice # 2) =>
        /\ pc \in {"select", "exit"}
        /\ pc = "exit" => out = "Invalid choice!"
        /\ out # "table"
        /\ ct = Zeros /\ tat = Zeros /\ wt = Zeros
        /\ totalTAT = 0 /\ totalWT = 0
        /\ time = 0 /\ completed = 0 /\ idx = -1

\* The program has stopped on an invalid choice with several processes read.
C12_Witness ==
    /\ prog = "sjf"
    /\ choice = 3
    /\ n > 1
    /\ pc = "exit"
    /\ out = "Invalid choice!"

\* The (id, arrival time, burst time) triples held by three parallel arrays.
Triples(p, a, b) == {<<p[k], a[k], b[k]>> : k \in Idx}

\* What a step may do to the id, arrival and burst arrays.
PreservesInput ==
    /\ prog = "sjf" => (pid' = pid /\ at' = at /\ bt' = bt)
    /\ prog = "pid" => Triples(pid', at', bt') = Triples(pid, at, bt)
    /\ pc # "sort" => (pid' = pid /\ at' = at /\ bt' = bt)

\* C13: no simulation changes which arrival and burst time belong to which
\* id: in both SJF modes pid, at and bt never change, in FCFS the sort only
\* permutes the records (the set of triples stays the input set, one triple
\* per id) and the metrics loop writes none of the three arrays.
C13_InputPreserved ==
    /\ [][PreservesInput]_vars
    /\ [](prog = "sjf" => pid = [k \in Idx |-> k + 1])
    /\ []({t[1] : t \in Triples(pid, at, bt)} = 1 .. n)

\* A finished FCFS run in which the sort moved records with different bursts.
C13_Witness ==
    /\ prog = "pid"
    /\ Finished
    /\ n > 2
    /\ pid[0] # 1
    /\ pid[1] # 2
    /\ bt[0] # bt[1]

\* C14: the accumulated totals are the sums of the per-record values, each
\* record counted once: totalTAT is the sum of tat and totalWT the sum of wt
\* over all n records when a simulation ends (and over the records completed
\* so far before that), and n >= 1 divides them for the averages.
C14_TotalsAreSums ==
    /\ totalTAT = Sum(tat, Idx)
    /\ totalWT = Sum(wt, Idx)
    /\ Finished => /\ n >= 1
                   /\ totalTAT = Sum([k \in Idx |-> ct[k] - at[k]], Idx)
                   /\ totalWT = Sum([k \in Idx |-> ct[k] - at[k] - bt[k]], Idx)

\* A finished FCFS run of several processes with a positive waiting total.
C14_Witness ==
    /\ prog = "pid"
    /\ Finished
    /\ n > 1
    /\ totalWT > 0
    /\ totalTAT > totalWT

\* A record is eligible in the current mode of sjf.cpp.
Eligible(k) == IF pc = "np" THEN EligibleBT(k) ELSE EligibleRT(k)

\* The step only moves the clock forward by one unit.
IdleStep ==
    /\ time' = time + 1
    /\ idx' = -1
    /\ rt' = rt
    /\ done' = done
    /\ completed' = completed
    /\ ct' = ct /\ tat' = tat /\ wt' = wt
    /\ totalTAT' = totalTAT /\ totalWT' = totalWT

\* The step runs an eligible record.
RunStep ==
    /\ idx' # -1
    /\ Eligible(idx')
    /\ pc = "np" => (done'[idx'] /\ time' = time + bt[idx'])
    /\ pc = "pre" => (rt'[idx'] = rt[idx'] - 1 /\ time' = time + 1)

\* What an iteration of either SJF loop does.
IdleExactlyWhenNoneEligible ==
    (pc \in {"np", "pre"} /\ pc' = pc) =>
        /\ IdleStep <=> (\A k \in Idx : ~Eligible(k))
        /\ (\E k \in Idx : Eligible(k)) => RunStep

\* C16: in both SJF modes a loop iteration idles exactly when no record is
\* eligible (arrived and unfinished); the idle step advances the clock by one
\* and changes no remaining time, done flag, completed counter, completion
\* time or total; when some record is eligible the step runs a record.
C16_IdleStep ==
    [][IdleExactlyWhenNoneEligible]_vars

\* The clock has just idled between two arrivals, after a completion.
C16_Witness ==
    /\ pc \in {"np", "pre"}
    /\ idx = -1
    /\ idle > 0
    /\ completed > 0
    /\ completed < n

\* The records that FCFS or non-preemptive SJF has run so far.
HasRun ==
    CASE prog = "pid" /\ pc = "fcfs" -> 0 .. (i - 1)
      [] prog = "pid" /\ Finished -> Idx
      [] prog = "sjf" /\ choice = 1 -> {k \in Idx : done[k]}
      [] OTHER -> {}

\* A step that runs record k runs it from the clock at which it starts to
\* its completion time, without a break.
RunsToCompletion ==
    \A k \in Idx :
        (k \in HasRun' /\ k \notin HasRun) =>
            /\ time <= ct'[k] - bt[k]
            /\ time' = ct'[k]
            /\ \A m \in HasRun : ct'[m] = ct[m]

\* C17: in FCFS and in non-preemptive SJF each process runs in one
\* uninterrupted interval [ct - bt, ct) that starts no earlier than its
\* arrival time, and the intervals of two distinct processes do not overlap.
C17_RunIntervals ==
    /\ [][RunsToCompletion]_vars
    /\ [](\A k \in HasRun :
             /\ ct[k] - bt[k] >= at[k]
             /\ ct[k] <= time
             /\ \A m \in HasRun \ {k} :
                    ct[k] <= ct[m] - bt[m] \/ ct[m] <= ct[k] - bt[k])

\* A finished non-preemptive run of three processes in which the CPU idled
\* and a process waited.
C17_Witness ==
    /\ prog = "sjf"
    /\ choice = 1
    /\ Finished
    /\ n > 2
    /\ idle > 0
    /\ \E k \in Idx : wt[k] > 0

\* The key the scan of the current mode minimises.
Key == IF pc = "np" THEN bt ELSE rt

\* What the selection of either SJF loop picks.
LowestIndexOnTie ==
    (pc \in {"np", "pre"} /\ pc' = pc /\ idx' # -1) =>
        /\ Eligible(idx')
        /\ pid[idx'] = idx' + 1
        /\ \A k \in Idx :
             Eligible(k) =>
                 \/ Key[idx'] < Key[k]
                 \/ Key[idx'] = Key[k] /\ idx' <= k

\* C18: in both SJF modes the scan compares with a strict '<', so among the
\* eligible records tied on the minimum burst (non-preemptive) or remaining
\* time (preemptive) the one chosen is the one with the lowest index, which
\* is the lowest id, whatever the arrival times.
C18_LowestIndexTie ==
    [][LowestIndexOnTie]_vars

\* Non-preemptive SJF has just run a record in preference to a record of
\* higher index with the same burst that had arrived earlier.
C18_Witness ==
    /\ pc = "np"
    /\ idx # -1
    /\ \E k \in Idx :
          /\ k > idx
          /\ ~done[k]
          /\ bt[k] = bt[idx]
          /\ at[k] < at[idx]
          /\ at[idx] <= time - bt[idx]

\* Some record has burst time 0.
HasZeroBurst == \E k \in Idx : bt[k] = 0

\* What the steps of the two modes do with a record of burst time 0.
ZeroBurstSteps ==
    /\ (pc = "np" /\ pc' = pc /\ idx' # -1 /\ bt[idx'] = 0) =>
           /\ ct'[idx'] = time
           /\ time' = time
           /\ done'[idx']
           /\ completed' = completed + 1
    /\ (pc = "np" /\ pc' = pc /\ \E k \in Idx : EligibleBT(k) /\ bt[k] = 0) =>
           (idx' # -1 /\ bt[idx'] = 0)
    /\ (pc = "pre" /\ HasZeroBurst) =>
           /\ pc' = "pre"
           /\ idx' = -1 \/ bt[idx'] > 0
           /\ (\A k \in Idx : rt[k] = 0) => IdleStep

\* C19: with a burst time of 0 in the input the two modes differ:
\* non-preemptive SJF selects the record and completes it with completion
\* time equal to the clock at selection; in preemptive mode the record is
\* never eligible and never counted, the loop never ends, and once all other
\* records have finished every step is an idle tick.
C19_ZeroBurst ==
    /\ [][ZeroBurstSteps]_vars
    /\ []((choice = 1 /\ Finished) => \A k \in Idx : done[k])
    /\ []((choice = 2 /\ HasZeroBurst) =>
             /\ pc \in {"select", "pre"}
             /\ completed < n
             /\ \A k \in Idx : bt[k] = 0 => (ct[k] = 0 /\ ~EligibleRT(k))
             /\ pc = "pre" =>
                  completed =
                      Cardinality({k \in Idx : bt[k] > 0 /\ rt[k] = 0}))

\* The preemptive loop is still idling at MaxClock: every record with a
\* positive burst has finished and the record of burst 0 is not counted.
C19_Witness ==
    /\ choice = 2
    /\ pc = "pre"
    /\ n > 1
    /\ HasZeroBurst
    /\ completed = n - 1
    /\ completed > 0
    /\ idx = -1
    /\ time = MaxClock

\* All processes arrive at the same time.
SameArrival == \A k \in Idx : \A m \in Idx : at[k] = at[m]

\* The records that run no later than record k when all have arrived:
\* those of smaller burst, and those of equal burst and no higher index.
NotAfter(k) == {m \in Idx : bt[m] < bt[k] \/ (bt[m] = bt[k] /\ m <= k)}

\* A preemptive tick keeps running the record of the previous tick until
\* that record is complete.
NoPreemption ==
    (pc = "pre" /\ pc' = pc /\ SameArrival /\ idx # -1 /\ rt[idx] > 0) =>
        idx' = idx

\* C20: when all processes arrive at the same time, preemptive SRTF never
\* preempts (a record once run is run at every following tick until it
\* completes), and both modes give every record the same completion,
\* turnaround and waiting time: the common arrival time plus the bursts of
\* the records that run no later than it.
C20_SameArrival ==
    /\ [][NoPreemption]_vars
    /\ []((prog = "sjf" /\ SameArrival /\ Finished) =>
             \A k \in Idx :
                 /\ ct[k] = at[k] + Sum(bt, NotAfter(k))
                 /\ tat[k] = Sum(bt, NotAfter(k))
                 /\ wt[k] = Sum(bt, NotAfter(k)) - bt[k])

\* A finished preemptive run of three processes that arrived together after
\* time 0, two with equal bursts, not in order of burst.
C20_Witness ==
    /\ prog = "sjf"
    /\ choice = 2
    /\ Finished
    /\ SameArrival
    /\ n > 2
    /\ at[0] > 0
    /\ bt[0] > bt[1]
    /\ bt[0] = bt[2]
====
